---- MODULE Spec2Model ----
(***************************************************************************)
(* generator.py: the config-driven SQL file generator.                     *)
(*                                                                         *)
(* main() connects to PostgreSQL, loads models/dynamic_models.yml from the *)
(* project root, and for every entry of "dynamic_models" runs the customer *)
(* query and the model query and writes one rendered .sql file per         *)
(* (customer, model) pair.  The program is sequential; pc is its position. *)
(* Every input (environment, repository layout, configuration file,        *)
(* backend answers, initial filesystem) is fixed in the initial state and  *)
(* kept in the variable world, so a second run sees the same inputs.       *)
(***************************************************************************)
EXTENDS Integers, Sequences, FiniteSets, TLC

(* The largest number of rows a metadata query returns. *)
MaxRows == 2

-----------------------------------------------------------------------------
(* Strings, paths and templates                                            *)

(* A path is the sequence of its components; <<>> is the filesystem root.  *)
Join(p, q) == p \o q

Dirname(p) == IF p = <<>> THEN <<>> ELSE SubSeq(p, 1, Len(p) - 1)

(* A template string is a sequence of pieces: literal text, or a           *)
(* replacement field {key}.                                                *)
Lit(s) == [kind |-> "lit", text |-> s]
Field(k) == [kind |-> "field", text |-> k]

(* The replacement fields of template t that kwargs does not bind, and the *)
(* first of them in template order: the key str.format raises KeyError on. *)
UnboundAt(t, kwargs) ==
    {n \in 1..Len(t) : t[n].kind = "field" /\ t[n].text \notin DOMAIN kwargs}

FormatRaises(t, kwargs) == UnboundAt(t, kwargs) # {}

RECURSIVE Format(_, _)
Format(t, kwargs) ==
    IF t = <<>> THEN ""
    ELSE (IF t[1].kind = "lit" THEN t[1].text ELSE kwargs[t[1].text])
         \o Format(Tail(t), kwargs)

(* A location template holds "/" between its components; it is kept as the *)
(* sequence of its component templates, and rendering it gives a path.     *)
LocationRaises(loc, kwargs) == \E n \in 1..Len(loc) : FormatRaises(loc[n], kwargs)

FormatLocation(loc, kwargs) == [n \in 1..Len(loc) |-> Format(loc[n], kwargs)]

-----------------------------------------------------------------------------
(* Exceptions                                                              *)

(* The base class of each exception class that the program can raise.      *)
BaseClass(cls) ==
    CASE cls = "KeyError" -> "LookupError"
      [] cls = "LookupError" -> "Exception"
      [] cls = "ValueError" -> "Exception"
      [] cls = "RuntimeError" -> "Exception"
      [] cls = "ConnectionError" -> "OSError"
      [] cls = "FileNotFoundError" -> "OSError"
      [] cls = "FileExistsError" -> "OSError"
      [] cls = "NotADirectoryError" -> "OSError"
      [] cls = "IsADirectoryError" -> "OSError"
      [] cls = "OSError" -> "Exception"
      [] cls = "psycopg2.Error" -> "Exception"
      [] cls = "yaml.YAMLError" -> "Exception"
      [] OTHER -> "BaseException"

RECURSIVE IsInstance(_, _)
IsInstance(cls, base) ==
    \/ cls = base
    \/ cls # "BaseException" /\ IsInstance(BaseClass(cls), base)

(* Line 140: the classes the except clause of main names.                  *)
MainCatches(cls) ==
    \E base \in {"ValueError", "ConnectionError", "FileNotFoundError", "RuntimeError"} :
        IsInstance(cls, base)

(* No exception: the value of error while nothing has been raised.         *)
NoError ==
    [cls |-> "None", cause |-> "None", site |-> "None",
     spec |-> 0, cust |-> 0, model |-> 0, handled |-> FALSE]

-----------------------------------------------------------------------------
(* Inputs                                                                  *)

(* The directory of the script, and the chain of its ancestors.            *)
ScriptDir == <<"repo", "scripts">>
RepoRoot == <<"repo">>

acmeProd == [customer |-> "acme", customer_env |-> "prod"]
betaDev == [customer |-> "beta", customer_env |-> "dev"]
acmeNoEnv == [customer |-> "acme"]
CustomerRowPool == {acmeProd, betaDev, acmeNoEnv}

orders == [table_name |-> "orders"]
invoices == [table_name |-> "invoices"]
noTableName == [relname |-> "orders"]
ModelRowPool == {orders, invoices, noTableName}

SeqsUpTo(S, n) == UNION {[1..k -> S] : k \in 0..n}

(* What the backend answers to a query: a failure, or rows in order.       *)
Answers(pool) ==
    {[fails |-> TRUE, rows |-> <<>>]}
        \cup {[fails |-> FALSE, rows |-> r] : r \in SeqsUpTo(pool, MaxRows)}

LocationT == <<<<Lit("models")>>, <<Lit("customers")>>,
               <<Field("customer")>>, <<Field("customer_env")>>>>
NameT == <<Lit("cdm_"), Field("customer"), Lit("_"), Field("model")>>
SqlT == <<Lit("select * from "), Field("model"), Lit(" where tenant='"),
          Field("customer"), Lit("'")>>

ModelConfig(name, location, sql, cq, mq) ==
    [name |-> name, location |-> location, sql |-> sql,
     params |-> <<[query |-> cq], [query |-> mq]>>]

stdSpec == ModelConfig(NameT, LocationT, SqlT, "q_customers", "q_models")
(* name uses {customer} only: the models of a customer share one file.     *)
collapseSpec ==
    ModelConfig(<<Lit("cdm_"), Field("customer")>>, LocationT, SqlT,
                "q_customers", "q_models")
(* location refers to {model}, which its format call does not bind.        *)
badLocationSpec ==
    ModelConfig(NameT, <<<<Lit("models")>>, <<Field("model")>>>>, SqlT,
                "q_customers", "q_models")
(* name refers to {customer_env}, which its format call does not bind.     *)
badNameSpec ==
    ModelConfig(<<Field("customer_env"), Lit("_"), Field("model")>>, LocationT, SqlT,
                "q_customers", "q_models")
(* sql refers to {customer_env}, which its format call does not bind.      *)
badSqlSpec ==
    ModelConfig(NameT, LocationT,
                <<Lit("use "), Field("customer_env"), Lit("; select 1")>>,
                "q_customers", "q_models")
(* a second family, with queries of its own.                               *)
euSpec ==
    ModelConfig(<<Lit("eu_"), Field("customer"), Lit("_"), Field("model")>>,
                LocationT, SqlT, "q_customers_eu", "q_models_eu")

Configs ==
    { <<>>, <<stdSpec>>, <<collapseSpec>>, <<stdSpec, collapseSpec>>,
      <<collapseSpec, stdSpec>>, <<stdSpec, badLocationSpec>>,
      <<badNameSpec>>, <<stdSpec, badSqlSpec>>, <<badSqlSpec>>, <<stdSpec, euSpec>> }

EuCustomerAnswers ==
    { [fails |-> TRUE, rows |-> <<>>], [fails |-> FALSE, rows |-> <<betaDev, acmeNoEnv>>],
      [fails |-> FALSE, rows |-> <<betaDev>>] }
EuModelAnswers ==
    { [fails |-> TRUE, rows |-> <<>>], [fails |-> FALSE, rows |-> <<invoices, noTableName>>],
      [fails |-> FALSE, rows |-> <<invoices>>] }

QueriesOf(cfg) ==
    UNION {{cfg[n].params[1].query, cfg[n].params[2].query} : n \in 1..Len(cfg)}

(* A query on a relation the backend does not have fails.                  *)
NoSuchRelation == [fails |-> TRUE, rows |-> <<>>]

(* The backend as the function from each query to its answer.              *)
Backend(c, m, ce, me) ==
    ("q_customers" :> c) @@ ("q_models" :> m)
        @@ ("q_customers_eu" :> ce) @@ ("q_models_eu" :> me)

(* The answers to query q that the worlds of configuration cfg range over. *)
AnswersTo(q, cfg) ==
    IF q \notin QueriesOf(cfg) THEN {NoSuchRelation}
    ELSE CASE q = "q_customers" -> Answers(CustomerRowPool)
           [] q = "q_models" -> Answers(ModelRowPool)
           [] q = "q_customers_eu" -> EuCustomerAnswers
           [] OTHER -> EuModelAnswers

(* Filesystems the run may start from: directories and files with content. *)
CustomersDir == <<"repo", "models", "customers">>
EmptyFs == [dirs |-> {<<>>, <<"repo">>, <<"repo", "scripts">>}, files |-> <<>>]
UsedFs ==
    [dirs |-> {<<>>, <<"repo">>, <<"repo", "scripts">>, <<"repo", "models">>,
               CustomersDir, CustomersDir \o <<"acme">>,
               CustomersDir \o <<"acme", "prod">>,
               CustomersDir \o <<"acme", "prod", "cdm_acme_invoices.sql">>},
     files |-> (CustomersDir \o <<"acme", "prod", "cdm_acme_orders.sql">> :> "stale")
                   @@ (CustomersDir \o <<"beta">> :> "not a directory")]

World(env, git, yamlAt, wellFormed, cfg, be, disk) ==
    [env |-> env, git |-> git, yamlAt |-> yamlAt, wellFormed |-> wellFormed,
     config |-> cfg, backend |-> be, disk |-> disk]

DefaultBackend ==
    Backend([fails |-> FALSE, rows |-> <<acmeProd>>],
            [fails |-> FALSE, rows |-> <<orders, invoices>>],
            NoSuchRelation, NoSuchRelation)

(* Worlds in which generation runs: every configuration, every backend     *)
(* answering its queries, on a fresh and on a used filesystem.             *)
GenerationWorld(w) ==
    \E cfg \in Configs, disk \in {EmptyFs, UsedFs} :
        \E c \in AnswersTo("q_customers", cfg), m \in AnswersTo("q_models", cfg),
           ce \in AnswersTo("q_customers_eu", cfg), me \in AnswersTo("q_models_eu", cfg) :
            w = World("set", {RepoRoot}, {RepoRoot}, TRUE, cfg, Backend(c, m, ce, me), disk)

(* Worlds in which the connection parameters are unset or the server is    *)
(* unreachable.                                                            *)
SetupWorld(w) ==
    \E env \in {"unset", "unreachable"} :
        w = World(env, {RepoRoot}, {RepoRoot}, TRUE, <<stdSpec>>, DefaultBackend, EmptyFs)

(* Worlds over every placement of .git and of models/dynamic_models.yml in *)
(* the script directory, its ancestors and (for .git) a directory beside   *)
(* it, the file well-formed or not.                                        *)
LoadWorld(w) ==
    \E git \in SUBSET {<<>>, RepoRoot, ScriptDir, <<"repo", "other">>},
       yamlAt \in SUBSET {<<>>, RepoRoot, ScriptDir}, wf \in BOOLEAN :
        w = World("set", git, yamlAt, wf, <<stdSpec>>, DefaultBackend, EmptyFs)

-----------------------------------------------------------------------------
(* State                                                                   *)

VARIABLES
    world,      \* the inputs of the run: environment, repository, backend
    fs,         \* the filesystem: its directories and its files' contents
    pc,         \* the position of main
    conn,       \* main's conn: "None", "open" or "closed"
    config,     \* main's config["dynamic_models"]
    i,          \* index of model_config in config["dynamic_models"]
    customers,  \* the customers list of the current model_config
    models,     \* the models list of the current model_config
    a,          \* index of customer_dict in customers
    b,          \* index of model in models
    file_path,  \* the file_path of the current task
    sql_content,\* the sql_content of the current task
    error,      \* the exception in flight or handled, NoError when none
    log,        \* the backend calls, filesystem changes and prints so far
    run,        \* "first" or "second": which run of the generator this is
    firstFs,    \* the filesystem as the first run left it
    hook,       \* compare_and_dispatch.py: its environment and repository
    hpc,        \* compare_and_dispatch.py: the position of its main
    tenant_id,  \* compare_and_dispatch.py: tenant_id
    database,   \* compare_and_dispatch.py: database
    posts,      \* compare_and_dispatch.py: the requests sent
    exit_status,\* compare_and_dispatch.py: the exit status, -1 while running
    message     \* compare_and_dispatch.py: what it printed last

locals == <<config, i, customers, models, a, b, file_path, sql_content>>
generator == <<world, fs, pc, conn, locals, error, log, run, firstFs>>
dispatcher == <<hook, hpc, tenant_id, database, posts, exit_status, message>>
vars == <<generator, dispatcher>>

Event(op, query, path, content) ==
    [op |-> op, spec |-> i, cust |-> a, model |-> b,
     query |-> query, path |-> path, content |-> content]

InitLocals ==
    /\ config = <<>>
    /\ i = 0
    /\ customers = <<>>
    /\ models = <<>>
    /\ a = 0
    /\ b = 0
    /\ file_path = <<>>
    /\ sql_content = ""

InitGenerator ==
    /\ fs = world.disk
    /\ pc = "main"
    /\ conn = "None"
    /\ InitLocals
    /\ error = NoError
    /\ log = <<>>
    /\ run = "first"
    /\ firstFs = world.disk

(* compare_and_dispatch.py before its main has begun.                      *)
InitDispatcher ==
    /\ hpc = "parse"
    /\ tenant_id = <<>>
    /\ database = ""
    /\ posts = <<>>
    /\ exit_status = -1
    /\ message = ""

(* The generator is run; the webhook handler is not.                       *)
Init ==
    /\ GenerationWorld(world) \/ SetupWorld(world) \/ LoadWorld(world)
    /\ InitGenerator
    /\ hook = <<>>
    /\ InitDispatcher

-----------------------------------------------------------------------------
(* Helpers of the operations                                               *)

(* find_project_root: walk up from start_path to the first directory that  *)
(* holds .git; found is FALSE for the None it returns at the root.         *)
(* (faulty variant: the walk goes on to the top and keeps its last hit)    *)
FindUpTopmost(git, current_path) ==
    LET hits == {SubSeq(current_path, 1, n) : n \in 0..Len(current_path)} \cap git
    IN  IF hits = {} THEN [found |-> FALSE, path |-> <<>>]
        ELSE [found |-> TRUE,
              path |-> CHOOSE h \in hits : \A g \in hits : Len(h) <= Len(g)]

RECURSIVE FindUp(_, _)
FindUp(git, current_path) ==
    IF current_path \in git THEN [found |-> TRUE, path |-> current_path]
    ELSE IF Dirname(current_path) = current_path THEN [found |-> FALSE, path |-> <<>>]
    ELSE FindUp(git, Dirname(current_path))

find_project_root(start_path) == FindUp(world.git, start_path)

(* An exception raised at site while (i, a, b) is the current task.        *)
Exc(cls, cause, site) ==
    [cls |-> cls, cause |-> cause, site |-> site,
     spec |-> i, cust |-> a, model |-> b, handled |-> FALSE]

Raises(exc) ==
    /\ error' = exc
    /\ pc' = "except"

(* Where generate_sql_files goes when it turns to entry n of the list cfg: *)
(* the customer query of that entry, or its return into main's finally.    *)
SpecOrReturn(n, cfg) == IF n <= Len(cfg) THEN "customers" ELSE "finally"

(* The nested for loops of lines 109 and 112, from inside task (ca, cb) of *)
(* a model_config with nc customers and nm models: the next task, or none. *)
(* (faulty variant: the loop over customers stops after the first one)     *)
HasNextTaskInnerOnly(ca, cb, nc, nm) == cb < nm

HasNextTask(ca, cb, nc, nm) == nm > 0 /\ (cb < nm \/ ca < nc)

(* (faulty variant: the loops nested the other way round, models outside)  *)
NextTaskModelMajor(ca, cb, nc, nm) == IF ca < nc THEN <<ca + 1, cb>> ELSE <<1, cb + 1>>

NextTask(ca, cb, nc, nm) == IF cb < nm THEN <<ca, cb + 1>> ELSE <<ca + 1, 1>>

(* (faulty variant: the model query inside the loops, run again per task)  *)
NextTaskPcRequery == "models"

(* Line 112 again after a task: the loop body, which makes no query.       *)
NextTaskPc == "render"

(* The directories os.makedirs(d) needs: d and all its ancestors.          *)
Ancestors(d) == {SubSeq(d, 1, n) : n \in 0..Len(d)}

(* The exception class that the except clause of get_customers_from_postgres *)
(* turns an exception of class cls into.                                   *)
Translated(cls) == IF IsInstance(cls, "Exception") THEN "RuntimeError" ELSE cls

(* (faulty variant: row.get(key, "") in place of row[key])                 *)
ProjectCustomerDefaulting(row) ==
    [raises |-> FALSE,
     value |-> [customer |-> IF "customer" \in DOMAIN row THEN row.customer ELSE "",
                customer_env |-> IF "customer_env" \in DOMAIN row
                                 THEN row.customer_env ELSE ""]]

(* Lines 87-90: the projection of a row of the customer query; raises is   *)
(* the KeyError of a row without "customer" or "customer_env".             *)
ProjectCustomer(row) ==
    IF {"customer", "customer_env"} \subseteq DOMAIN row
    THEN [raises |-> FALSE,
          value |-> [customer |-> row.customer, customer_env |-> row.customer_env]]
    ELSE [raises |-> TRUE, value |-> [customer |-> "", customer_env |-> ""]]

(* (faulty variant: the file opened with mode "a")                         *)
WriteTextAppending(files, path, content) ==
    [p \in DOMAIN files \cup {path} |->
        IF p # path THEN files[p]
        ELSE IF path \in DOMAIN files THEN files[path] \o content ELSE content]

(* (faulty variant: the file opened with mode "x" and the error ignored)   *)
WriteTextKeeping(files, path, content) ==
    [p \in DOMAIN files \cup {path} |->
        IF p \in DOMAIN files THEN files[p] ELSE content]

(* Lines 129-130: open(file_path, "w") truncates or creates the file, and  *)
(* write stores the content.                                               *)
WriteText(files, path, content) ==
    [p \in DOMAIN files \cup {path} |-> IF p = path THEN content ELSE files[p]]

-----------------------------------------------------------------------------
(* Operations                                                              *)

(* main, lines 135-137: setup_postgres_client.                             *)
SetupClient ==
    /\ pc = "main"
    /\ CASE world.env = "unset" ->
              /\ Raises(Exc("ValueError", "None", "setup"))
              /\ UNCHANGED <<conn, log>>
         [] world.env = "unreachable" ->
              /\ Raises(Exc("ConnectionError", "psycopg2.Error", "setup"))
              /\ UNCHANGED <<conn, log>>
         [] OTHER ->
              /\ conn' = "open"
              /\ log' = Append(log, Event("connect", "", <<>>, ""))
              /\ pc' = "load"
              /\ UNCHANGED error
    /\ UNCHANGED <<world, fs, locals, run, firstFs>>
    /\ UNCHANGED dispatcher

(* main, line 138: load_yaml_config.                                       *)
LoadConfig ==
    /\ pc = "load"
    /\ LET project_root == find_project_root(ScriptDir)
           yaml_file_path == Join(project_root.path, <<"models", "dynamic_models.yml">>)
       IN  IF ~project_root.found
           THEN /\ Raises(Exc("FileNotFoundError", "None", "project root"))
                /\ UNCHANGED <<config, i, log>>
           ELSE IF project_root.path \notin world.yamlAt
           THEN /\ Raises(Exc("FileNotFoundError", "None", "yaml file"))
                /\ UNCHANGED <<config, i, log>>
           ELSE IF ~world.wellFormed
           THEN /\ Raises(Exc("yaml.YAMLError", "None", "yaml parse"))
                /\ log' = Append(log, Event("read", "", yaml_file_path, ""))
                /\ UNCHANGED <<config, i>>
           ELSE /\ config' = world.config
                /\ i' = 1
                /\ log' = Append(log, Event("read", "", yaml_file_path, ""))
                /\ pc' = SpecOrReturn(1, world.config)
                /\ UNCHANGED error
    /\ UNCHANGED <<world, fs, conn, customers, models, a, b, file_path, sql_content,
                   run, firstFs>>
    /\ UNCHANGED dispatcher

(* generate_sql_files, lines 100-101: get_customers_from_postgres.         *)
CustomerQuery ==
    /\ pc = "customers"
    /\ LET customer_query == config[i].params[1].query
           answer == world.backend[customer_query]
           rows == answer.rows
       IN  /\ log' = Append(log, Event("query", customer_query, <<>>, ""))
           /\ IF answer.fails
              THEN /\ Raises(Exc(Translated("psycopg2.Error"), "psycopg2.Error",
                                 "customer query"))
                   /\ UNCHANGED customers
              ELSE IF \E n \in 1..Len(rows) : ProjectCustomer(rows[n]).raises
              THEN /\ Raises(Exc(Translated("KeyError"), "KeyError", "customer row"))
                   /\ UNCHANGED customers
              ELSE /\ customers' = [n \in 1..Len(rows) |-> ProjectCustomer(rows[n]).value]
                   /\ pc' = "models"
                   /\ UNCHANGED error
    /\ UNCHANGED <<world, fs, conn, config, i, models, a, b, file_path, sql_content,
                   run, firstFs>>
    /\ UNCHANGED dispatcher

(* generate_sql_files, lines 103-112: the model query, and the entry into  *)
(* the loops over customers and models.                                    *)
ModelQuery ==
    /\ pc = "models"
    /\ LET model_query == config[i].params[2].query
           answer == world.backend[model_query]
           model_results == answer.rows
       IN  /\ log' = Append(log, Event("query", model_query, <<>>, ""))
           /\ IF answer.fails
              THEN /\ Raises(Exc("psycopg2.Error", "None", "model query"))
                   /\ UNCHANGED <<models, i, a, b>>
              ELSE IF \E n \in 1..Len(model_results) :
                         "table_name" \notin DOMAIN model_results[n]
              THEN /\ Raises(Exc("KeyError", "None", "model row"))
                   /\ UNCHANGED <<models, i, a, b>>
              ELSE /\ models' = [n \in 1..Len(model_results) |->
                                    model_results[n].table_name]
                   /\ IF customers # <<>> /\ model_results # <<>>
                      THEN /\ a' = 1
                           /\ b' = 1
                           /\ pc' = "render"
                           /\ UNCHANGED i
                      ELSE /\ a' = 0
                           /\ b' = 0
                           /\ i' = i + 1
                           /\ pc' = SpecOrReturn(i + 1, config)
                   /\ UNCHANGED error
    /\ UNCHANGED <<world, fs, conn, config, customers, file_path, sql_content,
                   run, firstFs>>
    /\ UNCHANGED dispatcher

(* generate_sql_files, lines 113-125: output_dir, project root, filename   *)
(* and file_path of the task.                                              *)
RenderPath ==
    /\ pc = "render"
    /\ LET customer_name == customers[a].customer
           customer_env == customers[a].customer_env
           model == models[b]
           locKw == [customer |-> customer_name, customer_env |-> customer_env]
           nameKw == [customer |-> customer_name, model |-> model]
           project_root == find_project_root(ScriptDir)
       IN  IF LocationRaises(config[i].location, locKw)
           THEN /\ Raises(Exc("KeyError", "None", "location template"))
                /\ UNCHANGED file_path
           ELSE IF FormatRaises(config[i].name, nameKw)
           THEN /\ Raises(Exc("KeyError", "None", "name template"))
                /\ UNCHANGED file_path
           ELSE LET output_dir == FormatLocation(config[i].location, locKw)
                    output_dir_full_path ==
                        IF project_root.found THEN Join(project_root.path, output_dir)
                        ELSE output_dir
                    filename == Format(config[i].name, nameKw) \o ".sql"
                IN  /\ file_path' = Join(output_dir_full_path, <<filename>>)
                    /\ pc' = "makedirs"
                    /\ UNCHANGED error
    /\ UNCHANGED <<world, fs, conn, config, i, customers, models, a, b, sql_content,
                   log, run, firstFs>>
    /\ UNCHANGED dispatcher

(* generate_sql_files, line 127: os.makedirs(dirname, exist_ok=True).      *)
MakeDirs ==
    /\ pc = "makedirs"
    /\ LET d == Dirname(file_path)
       IN  IF d \in DOMAIN fs.files
           THEN /\ Raises(Exc("FileExistsError", "None", "makedirs"))
                /\ UNCHANGED <<fs, log>>
           ELSE IF Ancestors(d) \cap DOMAIN fs.files # {}
           THEN /\ Raises(Exc("NotADirectoryError", "None", "makedirs"))
                /\ UNCHANGED <<fs, log>>
           ELSE /\ fs' = [fs EXCEPT !.dirs = @ \cup Ancestors(d)]
                /\ log' = IF Ancestors(d) \subseteq fs.dirs THEN log
                          ELSE Append(log, Event("mkdir", "", d, ""))
                /\ pc' = "sql"
                /\ UNCHANGED error
    /\ UNCHANGED <<world, conn, locals, run, firstFs>>
    /\ UNCHANGED dispatcher

(* generate_sql_files, line 128: sql_content.                              *)
RenderSql ==
    /\ pc = "sql"
    /\ LET sqlKw == [customer |-> customers[a].customer, model |-> models[b]]
       IN  IF FormatRaises(config[i].sql, sqlKw)
           THEN /\ Raises(Exc("KeyError", "None", "sql template"))
                /\ UNCHANGED sql_content
           ELSE /\ sql_content' = Format(config[i].sql, sqlKw)
                /\ pc' = "write"
                /\ UNCHANGED error
    /\ UNCHANGED <<world, fs, conn, config, i, customers, models, a, b, file_path,
                   log, run, firstFs>>
    /\ UNCHANGED dispatcher

(* generate_sql_files, lines 129-131 and the loop steps of 112, 109, 99:   *)
(* the file is opened for writing and written, then the next task begins.  *)
WriteFile ==
    /\ pc = "write"
    /\ IF file_path \in fs.dirs
       THEN /\ Raises(Exc("IsADirectoryError", "None", "open"))
            /\ UNCHANGED <<fs, log, i, a, b>>
       ELSE /\ fs' = [fs EXCEPT !.files = WriteText(@, file_path, sql_content)]
            /\ log' = Append(log, Event("write", "", file_path, sql_content))
            /\ IF HasNextTask(a, b, Len(customers), Len(models))
               THEN /\ a' = NextTask(a, b, Len(customers), Len(models))[1]
                    /\ b' = NextTask(a, b, Len(customers), Len(models))[2]
                    /\ pc' = NextTaskPc
                    /\ UNCHANGED i
               ELSE /\ a' = 0
                    /\ b' = 0
                    /\ i' = i + 1
                    /\ pc' = SpecOrReturn(i + 1, config)
            /\ UNCHANGED error
    /\ UNCHANGED <<world, conn, config, customers, models, file_path, sql_content,
                   run, firstFs>>
    /\ UNCHANGED dispatcher

(* (faulty variant: the error is printed and the next entry is taken up)   *)
ExceptClauseContinues ==
    /\ pc = "except"
    /\ error' = [error EXCEPT !.handled = TRUE]
    /\ log' = Append(log, Event("print", "", <<>>, "An error occurred"))
    /\ i' = i + 1
    /\ pc' = SpecOrReturn(i + 1, config)
    /\ UNCHANGED <<world, fs, conn, config, customers, models, a, b, file_path,
                   sql_content, run, firstFs>>
    /\ UNCHANGED dispatcher

(* (faulty variant: the handler removes the files the run has written)     *)
ExceptClauseRollsBack ==
    /\ pc = "except"
    /\ error' = [error EXCEPT !.handled = TRUE]
    /\ log' = Append(log, Event("print", "", <<>>, "An error occurred"))
    /\ fs' = [fs EXCEPT !.files =
                 [p \in DOMAIN @ \ {log[k].path : k \in {l \in 1..Len(log) :
                                                         log[l].op = "write"}} |-> @[p]]]
    /\ pc' = "finally"
    /\ UNCHANGED <<world, conn, locals, run, firstFs>>
    /\ UNCHANGED dispatcher

(* main, lines 140-141: the except clause.                                 *)
ExceptClause ==
    /\ pc = "except"
    /\ IF MainCatches(error.cls)
       THEN /\ error' = [error EXCEPT !.handled = TRUE]
            /\ log' = Append(log, Event("print", "", <<>>, "An error occurred"))
       ELSE UNCHANGED <<error, log>>
    /\ pc' = "finally"
    /\ UNCHANGED <<world, fs, conn, locals, run, firstFs>>
    /\ UNCHANGED dispatcher

(* (faulty variant: conn.close() as the last statement of the try body)    *)
FinallyClosesOnSuccess ==
    /\ pc = "finally"
    /\ IF conn = "open" /\ error.cls = "None"
       THEN /\ conn' = "closed"
            /\ log' = Append(log, Event("close", "", <<>>, ""))
       ELSE UNCHANGED <<conn, log>>
    /\ pc' = IF error.cls # "None" /\ ~error.handled THEN "raised" ELSE "returned"
    /\ UNCHANGED <<world, fs, locals, error, run, firstFs>>
    /\ UNCHANGED dispatcher

(* main, lines 142-144: the finally clause; main then returns, or the      *)
(* exception that the except clause did not catch leaves main.             *)
Finally ==
    /\ pc = "finally"
    /\ IF conn = "open"
       THEN /\ conn' = "closed"
            /\ log' = Append(log, Event("close", "", <<>>, ""))
       ELSE UNCHANGED <<conn, log>>
    /\ pc' = IF error.cls # "None" /\ ~error.handled THEN "raised" ELSE "returned"
    /\ UNCHANGED <<world, fs, locals, error, run, firstFs>>
    /\ UNCHANGED dispatcher

(* The generator is started a second time, on what the first run left.     *)
Rerun ==
    /\ pc \in {"returned", "raised"}
    /\ run = "first"
    /\ run' = "second"
    /\ firstFs' = fs
    /\ pc' = "main"
    /\ conn' = "None"
    /\ config' = <<>>
    /\ i' = 0
    /\ customers' = <<>>
    /\ models' = <<>>
    /\ a' = 0
    /\ b' = 0
    /\ file_path' = <<>>
    /\ sql_content' = ""
    /\ error' = NoError
    /\ log' = <<>>
    /\ UNCHANGED <<world, fs>>
    /\ UNCHANGED dispatcher

Next ==
    \/ SetupClient
    \/ LoadConfig
    \/ CustomerQuery
    \/ ModelQuery
    \/ RenderPath
    \/ MakeDirs
    \/ RenderSql
    \/ WriteFile
    \/ ExceptClause
    \/ Finally

Spec == Init /\ [][Next]_vars

SpecRerun == Init /\ [][Next \/ Rerun]_vars

-----------------------------------------------------------------------------
(* compare_and_dispatch.py: the Fivetran webhook handler                   *)

(* A string whose characters matter is the sequence of its characters.     *)
s_acme_sf == <<"a", "c", "m", "e", "_", "s", "f">>
s_acme == <<"a", "c", "m", "e">>
s_beta_x_y == <<"b", "e", "t", "a", "_", "x", "_", "y">>
s_underscore_sf == <<"_", "s", "f">>
s_fivetran == <<"f", "i", "v", "e", "t", "r", "a", "n">>
s_Fivetran_log == <<"F", "i", "v", "e", "t", "r", "a", "n", "_", "l", "o", "g">>
s_FIVETRAN == <<"F", "I", "V", "E", "T", "R", "A", "N">>
s_fivetranx_a == <<"f", "i", "v", "e", "t", "r", "a", "n", "x", "_", "a">>
s_cdm_ == <<"c", "d", "m", "_">>

(* A key of a JSON object, or an environment variable: absent, or a value. *)
Absent == [present |-> FALSE, value |-> <<>>]
Present(v) == [present |-> TRUE, value |-> v]

ConnectorNames ==
    {Absent, Present(<<>>), Present(s_acme_sf), Present(s_acme), Present(s_beta_x_y),
     Present(s_underscore_sf), Present(s_fivetran), Present(s_Fivetran_log),
     Present(s_FIVETRAN), Present(s_fivetranx_a)}

(* What lies under <project root>/models/customers: whether that is a      *)
(* directory, and the directories and files below it, as relative paths.   *)
Tree(isdir, dirs, files) == [isdir |-> isdir, dirs |-> dirs, files |-> files]

CustomerTrees ==
    {Tree(FALSE, {}, {}), Tree(TRUE, {}, {}),
     Tree(TRUE, {<<s_cdm_ \o s_acme>>}, {}),
     Tree(TRUE, {<<s_acme>>, <<s_acme, <<"p">>>>, <<s_acme, <<"p">>, s_cdm_ \o s_acme>>}, {}),
     Tree(TRUE, {<<s_acme>>}, {<<s_acme, s_cdm_ \o s_acme>>}),
     Tree(TRUE, {<<s_cdm_ \o s_beta_x_y>>, <<s_cdm_ \o <<"A", "c", "m", "e">>>>}, {})}

(* DEST_GROUP_DB_MAP: unset, not JSON, JSON that is no object, or an       *)
(* object from group ids to database names.                                *)
DbMap(kind, map) == [kind |-> kind, map |-> map]

DbMaps ==
    {DbMap("unset", <<>>), DbMap("invalid", <<>>), DbMap("array", <<>>),
     DbMap("object", [grp1 |-> "DB1"]), DbMap("object", [grp1 |-> "", grp2 |-> "DB2"])}

(* PAYLOAD as a JSON object.                                               *)
Payload(cn, ev, st, dg) ==
    [kind |-> "object", connector_name |-> cn, event |-> ev, status |-> st,
     destination_group_id |-> dg]

(* PAYLOAD unset, empty, not JSON, or JSON that is no object.              *)
BrokenPayloads ==
    {[kind |-> k, connector_name |-> Absent, event |-> "None", status |-> "None",
      destination_group_id |-> "None"] : k \in {"unset", "empty", "invalid", "array"}}

HookDir == <<"repo", ".github", "workflows", "src">>

Hook(payload, git, tree, map, token, repo) ==
    [payload |-> payload, git |-> git, tree |-> tree, map |-> map,
     GH_TOKEN |-> token, GITHUB_REPOSITORY |-> repo]

(* str.split("_")[0]: the characters before the first "_".                 *)
RECURSIVE SplitHead(_)
SplitHead(str) ==
    IF str = <<>> \/ str[1] = "_" THEN <<>> ELSE <<str[1]>> \o SplitHead(Tail(str))

(* (faulty variant: the comparison with "fivetran" without lower())        *)
LowerUnchanged(str) == str

(* str.lower(), on the letters that occur.                                 *)
Lower(str) ==
    [n \in 1..Len(str) |->
        CASE str[n] = "F" -> "f" [] str[n] = "I" -> "i" [] str[n] = "V" -> "v"
          [] str[n] = "E" -> "e" [] str[n] = "T" -> "t" [] str[n] = "R" -> "r"
          [] str[n] = "A" -> "a" [] str[n] = "N" -> "n" [] OTHER -> str[n]]

(* Lines 74-78: os.walk over customers_dir finds cdm_name among the dirs   *)
(* of some directory.                                                      *)
TenantExists(tree, cdm_name) ==
    /\ tree.isdir
    /\ \E d \in tree.dirs : d[Len(d)] = cdm_name

(* sys.exit(status) after print(text); an exception that nothing catches   *)
(* ends the process with status 1 as well.                                 *)
Exit(status, text) ==
    /\ hpc' = "exited"
    /\ exit_status' = status
    /\ message' = text

(* Lines 26-42: PAYLOAD, its JSON and connector_name.                      *)
ParsePayload ==
    /\ hpc = "parse"
    /\ IF hook.payload.kind \in {"unset", "empty"}
       THEN Exit(1, "PAYLOAD env var not set")
       ELSE IF hook.payload.kind = "invalid"
       THEN Exit(1, "Invalid PAYLOAD JSON")
       ELSE IF hook.payload.kind # "object"
       THEN Exit(1, "AttributeError")
       ELSE IF ~hook.payload.connector_name.present
               \/ hook.payload.connector_name.value = <<>>
       THEN Exit(1, "connector_name missing from payload")
       ELSE /\ hpc' = "filter"
            /\ UNCHANGED <<exit_status, message>>
    /\ UNCHANGED <<generator, hook, tenant_id, database, posts>>

(* Lines 45-51: the filter on event and data.status; data.get raises when  *)
(* data is neither absent nor an object.                                   *)
FilterEvent ==
    /\ hpc = "filter"
    /\ IF hook.payload.event # "sync_end"
       THEN Exit(0, "not sync_end")
       ELSE IF hook.payload.status = "data is a list"
       THEN Exit(1, "AttributeError")
       ELSE IF hook.payload.status # "SUCCESSFUL"
       THEN Exit(0, "not SUCCESSFUL")
       ELSE /\ hpc' = "tenant"
            /\ UNCHANGED <<exit_status, message>>
    /\ UNCHANGED <<generator, hook, tenant_id, database, posts>>

(* Lines 54-61: tenant_id, and the filter on the tenant "fivetran".        *)
ExtractTenant ==
    /\ hpc = "tenant"
    /\ LET connector_name == hook.payload.connector_name.value
           tid == IF \E n \in 1..Len(connector_name) : connector_name[n] = "_"
                  THEN SplitHead(connector_name) ELSE connector_name
       IN  /\ tenant_id' = tid
           /\ IF tid = <<>>
              THEN Exit(1, "Could not extract tenantId from connector_name")
              ELSE IF Lower(tid) = s_fivetran
              THEN Exit(0, "Ignoring connector with tenantId 'fivetran'")
              ELSE /\ hpc' = "exists"
                   /\ UNCHANGED <<exit_status, message>>
    /\ UNCHANGED <<generator, hook, database, posts>>

(* Lines 64-82: the project root and the check for the tenant's directory. *)
TenantCheck ==
    /\ hpc = "exists"
    /\ IF ~FindUp(hook.git, HookDir).found
       THEN Exit(1, "Project root not found")
       ELSE IF TenantExists(hook.tree, s_cdm_ \o tenant_id)
       THEN Exit(0, "Tenant already exists")
       ELSE /\ hpc' = "database"
            /\ UNCHANGED <<exit_status, message>>
    /\ UNCHANGED <<generator, hook, tenant_id, database, posts>>

(* Lines 85-105: the database of destination_group_id.                     *)
ResolveDatabase ==
    /\ hpc = "database"
    /\ LET destination_group_id == hook.payload.destination_group_id
           dest_group_db_map == hook.map.map
       IN  IF destination_group_id \in {"None", ""}
           THEN Exit(1, "destination_group_id missing from payload") /\ UNCHANGED database
           ELSE IF hook.map.kind = "unset"
           THEN Exit(1, "DEST_GROUP_DB_MAP env var not set") /\ UNCHANGED database
           ELSE IF hook.map.kind = "invalid"
           THEN Exit(1, "Invalid DEST_GROUP_DB_MAP JSON") /\ UNCHANGED database
           ELSE IF hook.map.kind # "object"
           THEN Exit(1, "AttributeError") /\ UNCHANGED database
           ELSE IF destination_group_id \notin DOMAIN dest_group_db_map
                   \/ dest_group_db_map[destination_group_id] = ""
           THEN Exit(1, "destination_group_id not found in DEST_GROUP_DB_MAP")
                /\ UNCHANGED database
           ELSE /\ database' = dest_group_db_map[destination_group_id]
                /\ hpc' = "credentials"
                /\ UNCHANGED <<exit_status, message>>
    /\ UNCHANGED <<generator, hook, tenant_id, posts>>

(* Lines 108-116: GH_TOKEN and GITHUB_REPOSITORY.                          *)
Credentials ==
    /\ hpc = "credentials"
    /\ IF hook.GH_TOKEN = ""
       THEN Exit(1, "GH_TOKEN env var not set")
       ELSE IF hook.GITHUB_REPOSITORY = ""
       THEN Exit(1, "GITHUB_REPOSITORY env var not set")
       ELSE /\ hpc' = "post"
            /\ UNCHANGED <<exit_status, message>>
    /\ UNCHANGED <<generator, hook, tenant_id, database, posts>>

(* Lines 118-136: the workflow-dispatch request; the answer is ok, or not  *)
(* ok, or requests.post raises.                                            *)
PostDispatch ==
    /\ hpc = "post"
    /\ posts' = Append(posts, [repo |-> hook.GITHUB_REPOSITORY, token |-> hook.GH_TOKEN,
                               ref |-> "master", database |-> database])
    /\ \E answer \in {"ok", "not ok", "raises"} :
          CASE answer = "ok" -> Exit(0, "Triggered Auto_Tenant_models_generator")
            [] answer = "not ok" -> Exit(1, "Failed to trigger workflow")
            [] OTHER -> Exit(1, "requests.RequestException")
    /\ UNCHANGED <<generator, hook, tenant_id, database>>

(* A run of the webhook handler on any delivery, in any environment; the   *)
(* generator is not run.                                                   *)
InitHook ==
    /\ \E git \in {{}, {RepoRoot}}, tree \in CustomerTrees, map \in DbMaps,
          token \in {"", "ghp"}, repo \in {"", "org/repo"} :
          \/ \E p \in BrokenPayloads : hook = Hook(p, git, tree, map, token, repo)
          \/ \E cn \in ConnectorNames, ev \in {"None", "sync_start", "sync_end"},
                st \in {"None", "FAILURE", "SUCCESSFUL", "data is a list"}, dg \in {"None", "grp1", "grp9"} :
                hook = Hook(Payload(cn, ev, st, dg), git, tree, map, token, repo)
    /\ InitDispatcher
    /\ SetupWorld(world)
    /\ world.env = "unset"
    /\ InitGenerator

NextHook ==
    \/ ParsePayload
    \/ FilterEvent
    \/ ExtractTenant
    \/ TenantCheck
    \/ ResolveDatabase
    \/ Credentials
    \/ PostDispatch

SpecHook == InitHook /\ [][NextHook]_vars

-----------------------------------------------------------------------------
(* What the claims speak of                                                *)

Terminal == pc \in {"returned", "raised"}

Succeeded == pc = "returned" /\ error.cls = "None"

Failed == Terminal /\ error.cls # "None"

(* The rows the backend returns for the customer query and for the model   *)
(* query of entry n of the configuration file.                             *)
CustomerRows(n) == world.backend[world.config[n].params[1].query].rows

ModelRows(n) == world.backend[world.config[n].params[2].query].rows

EventsOf(ops, n) == {k \in 1..Len(log) : log[k].op \in ops /\ log[k].spec = n}

TaskEvents(ops, n, ca, cb) ==
    {k \in EventsOf(ops, n) : log[k].cust = ca /\ log[k].model = cb}

(* Path and content of the file of pair (ca, cb) of entry n, from the rows *)
(* as the backend returned them.                                           *)
PathOf(n, ca, cb) ==
    Join(Join(find_project_root(ScriptDir).path,
              FormatLocation(world.config[n].location,
                             [customer |-> CustomerRows(n)[ca].customer,
                              customer_env |-> CustomerRows(n)[ca].customer_env])),
         <<Format(world.config[n].name,
                  [customer |-> CustomerRows(n)[ca].customer,
                   model |-> ModelRows(n)[cb].table_name]) \o ".sql">>)

ContentOf(n, ca, cb) ==
    Format(world.config[n].sql,
           [customer |-> CustomerRows(n)[ca].customer,
            model |-> ModelRows(n)[cb].table_name])

Pairs(n) == (1..Len(CustomerRows(n))) \X (1..Len(ModelRows(n)))

-----------------------------------------------------------------------------
(* C1: in a run that does not fail, every entry of the configuration with  *)
(* customer rows C and model rows M gets exactly |C| x |M| file writes,    *)
(* exactly one for each pair of positions (duplicate rows give duplicate   *)
(* writes), each at the pair's path with the pair's content; when the      *)
(* pairs' paths are all distinct, these are |C| x |M| distinct files, all  *)
(* of them present after the run.                                          *)
C1_CrossProductComplete ==
    Succeeded =>
        \A n \in 1..Len(world.config) :
            /\ Cardinality(EventsOf({"write"}, n))
                  = Len(CustomerRows(n)) * Len(ModelRows(n))
            /\ \A pr \in Pairs(n) :
                  /\ Cardinality(TaskEvents({"write"}, n, pr[1], pr[2])) = 1
                  /\ \A k \in TaskEvents({"write"}, n, pr[1], pr[2]) :
                        /\ log[k].path = PathOf(n, pr[1], pr[2])
                        /\ log[k].content = ContentOf(n, pr[1], pr[2])
                  /\ PathOf(n, pr[1], pr[2]) \in DOMAIN fs.files
            /\ (\A p1, p2 \in Pairs(n) :
                    p1 # p2 => PathOf(n, p1[1], p1[2]) # PathOf(n, p2[1], p2[2]))
                  => Cardinality({log[k].path : k \in EventsOf({"write"}, n)})
                        = Len(CustomerRows(n)) * Len(ModelRows(n))

(* A successful run over two customers and two models: four files.         *)
C1_Witness ==
    /\ Succeeded
    /\ \E n \in 1..Len(world.config) :
          /\ Len(CustomerRows(n)) = 2
          /\ Len(ModelRows(n)) = 2
          /\ Cardinality({log[k].path : k \in EventsOf({"write"}, n)}) = 4

(* Entry n's customer query answers with a row that has no customer_env.   *)
LacksCustomerEnv(n) ==
    /\ ~world.backend[world.config[n].params[1].query].fails
    /\ \E r \in 1..Len(CustomerRows(n)) : "customer_env" \notin DOMAIN CustomerRows(n)[r]

(* C2: if a row of the customer query of entry n lacks customer_env, then  *)
(* no directory is made and no file is written for entry n or any later    *)
(* entry, wherever the row stands among the rows, and the run ends with an *)
(* error: the KeyError of that row as get_customers_from_postgres reports  *)
(* it, unless the run failed before it reached entry n.                    *)
C2_MissingFieldAbortsBeforeWrites ==
    \A n \in 1..Len(world.config) :
        LacksCustomerEnv(n) =>
            /\ \A k \in 1..Len(log) : log[k].op \in {"write", "mkdir"} => log[k].spec < n
            /\ Terminal =>
                  /\ error.cls # "None"
                  /\ \/ error.spec < n
                     \/ /\ error.spec = n
                        /\ error.site = "customer row"
                        /\ error.cause = "KeyError"

(* The second entry's customer query returns a good row and then a row     *)
(* without customer_env: the first entry's files are written, none of the  *)
(* second.                                                                 *)
C2_Witness ==
    /\ Terminal
    /\ error.spec = 2
    /\ error.site = "customer row"
    /\ LacksCustomerEnv(2)
    /\ "customer_env" \in DOMAIN CustomerRows(2)[1]
    /\ EventsOf({"write"}, 1) # {}
    /\ EventsOf({"write", "mkdir"}, 2) = {}

(* What a step may do once an exception has been raised, and what the      *)
(* step that raises may do.                                                *)
SameException(e1, e2) == [e1 EXCEPT !.handled = FALSE] = [e2 EXCEPT !.handled = FALSE]

AfterErrorStep ==
    error.cls # "None" =>
        /\ SameException(error', error)
        /\ fs' = fs
        /\ pc' \in {"finally", "returned", "raised"}
        /\ Len(log') >= Len(log)
        /\ SubSeq(log', 1, Len(log)) = log
        /\ \A k \in (Len(log) + 1)..Len(log') : log'[k].op \in {"print", "close"}

RaisingStep ==
    (error.cls = "None" /\ error'.cls # "None") =>
        /\ fs' = fs
        /\ \A k \in (Len(log) + 1)..Len(log') : log'[k].op \notin {"write", "mkdir"}

(* C3: once an exception has been raised, the run makes no further query,  *)
(* creates no directory and writes no file, never goes back to the         *)
(* generation, and keeps that exception as its error to the end; the step  *)
(* that raises changes no file either.                                     *)
C3_FailFast ==
    /\ [](error.cls # "None" => pc \in {"except", "finally", "returned", "raised"})
    /\ [][AfterErrorStep /\ RaisingStep]_vars

(* A run that failed in the first of two entries after it wrote a file,    *)
(* with a customer still to go.                                            *)
C3_Witness ==
    /\ Failed
    /\ Len(world.config) = 2
    /\ error.spec = 1
    /\ error.cust < Len(customers)
    /\ EventsOf({"write"}, 1) # {}
    /\ EventsOf({"query", "write", "mkdir"}, 2) = {}

(* C4: main lets no error out: whatever is raised in the connection setup, *)
(* the loading of the configuration, either query, the projection of       *)
(* either query's rows, a template or the filesystem, main ends by         *)
(* returning, having printed its diagnostic for the error.                 *)
C4_MainCatchesEveryError ==
    Terminal =>
        /\ pc = "returned"
        /\ error.cls # "None" =>
              /\ error.handled
              /\ \E k \in 1..Len(log) : log[k].op = "print"

(* Entry n has both its row lists: it is at its tasks, failed in one, or   *)
(* is done.                                                                *)
TaskPcs == {"render", "makedirs", "sql", "write"}

TaskSites == {"location template", "name template", "makedirs", "sql template", "open"}

Resolved(n) ==
    \/ n < i
    \/ n = i /\ pc \in TaskPcs
    \/ error.spec = n /\ error.site \in TaskSites

QueryCount(n, q) == Cardinality({k \in EventsOf({"query"}, n) : log[k].query = q})

(* C5: for every entry of the configuration the customer query and the     *)
(* model query are executed at most once each, whatever the number of      *)
(* tasks, and exactly once each as soon as the entry has reached its       *)
(* tasks or is done.                                                       *)
C5_QueriesOncePerSpec ==
    \A n \in 1..Len(world.config) :
        /\ QueryCount(n, world.config[n].params[1].query) <= 1
        /\ QueryCount(n, world.config[n].params[2].query) <= 1
        /\ Cardinality(EventsOf({"query"}, n)) <= 2
        /\ Resolved(n) =>
              /\ QueryCount(n, world.config[n].params[1].query) = 1
              /\ QueryCount(n, world.config[n].params[2].query) = 1
              /\ Cardinality(EventsOf({"query"}, n)) = 2

(* An entry with four tasks, all written, and two queries.                 *)
C5_Witness ==
    /\ Succeeded
    /\ \E n \in 1..Len(world.config) :
          /\ Cardinality(EventsOf({"write"}, n)) = 4
          /\ Cardinality(EventsOf({"query"}, n)) = 2

(* The order of tasks, and the log positions of the work and the writes.   *)
TaskBefore(e1, e2) ==
    \/ e1.spec < e2.spec
    \/ e1.spec = e2.spec /\ e1.cust < e2.cust
    \/ e1.spec = e2.spec /\ e1.cust = e2.cust /\ e1.model < e2.model

Work == {k \in 1..Len(log) : log[k].op \in {"query", "mkdir", "write"}}

Writes == {k \in 1..Len(log) : log[k].op = "write"}

(* C6: the entries are worked in the order of the configuration file, all  *)
(* queries and writes of an entry before any of the next one and an        *)
(* entry's queries before its writes; of two writes the one of the         *)
(* lexicographically smaller (entry, customer position, model position)    *)
(* comes first, and only that one; and the write of positions (ca, cb) is  *)
(* the file of the ca-th customer row and the cb-th model row as the       *)
(* backend returned them.                                                  *)
C6_WriteOrder ==
    /\ \A k, l \in Work : k < l => log[k].spec <= log[l].spec
    /\ \A k, l \in Work :
          (log[k].spec = log[l].spec /\ log[k].op = "query" /\ log[l].op # "query")
              => k < l
    /\ \A k \in Work :
          log[k].op = "query" =>
              log[k].query \in {world.config[log[k].spec].params[1].query,
                                world.config[log[k].spec].params[2].query}
    /\ \A k, l \in Writes : k # l => (k < l <=> TaskBefore(log[k], log[l]))
    /\ \A k \in Writes :
          /\ log[k].path = PathOf(log[k].spec, log[k].cust, log[k].model)
          /\ log[k].content = ContentOf(log[k].spec, log[k].cust, log[k].model)

(* Two entries, the first with two customers and two models, all written.  *)
C6_Witness ==
    /\ Succeeded
    /\ TaskEvents({"write"}, 1, 1, 2) # {}
    /\ TaskEvents({"write"}, 1, 2, 1) # {}
    /\ CustomerRows(1)[1] # CustomerRows(1)[2]
    /\ ModelRows(1)[1] # ModelRows(1)[2]
    /\ EventsOf({"write"}, 2) # {}

(* C7: when the rendering of a template of a task raises, no directory has *)
(* been created and no file written for that task.                         *)
C7_RenderBeforeFilesystem ==
    error.site \in {"location template", "name template", "sql template"} =>
        TaskEvents({"mkdir", "write"}, error.spec, error.cust, error.model) = {}

(* C8: a backend failure in the customer query and one in the model query  *)
(* reach main as the same kind of error, the RuntimeError of               *)
(* get_customers_from_postgres, never as the backend's own exception.      *)
C8_SameQueryErrorKind ==
    error.site \in {"customer query", "model query"} =>
        /\ error.cls = "RuntimeError"
        /\ ~IsInstance(error.cls, "psycopg2.Error")

(* C9: the second of two runs on the same configuration and backend leaves *)
(* the filesystem, directories and files with their contents, exactly as   *)
(* the first run left it, whatever the filesystem was before the first.    *)
C9_Idempotent == (run = "second" /\ Terminal) => fs = firstFs

(* A second run that has ended, over a filesystem that held a stale file   *)
(* before the first run and on which the generator wrote.                  *)
C9_Witness ==
    /\ run = "second"
    /\ Terminal
    /\ world.disk = UsedFs
    /\ Writes # {}
    /\ \E p \in DOMAIN world.disk.files : fs.files[p] # world.disk.files[p]
    /\ DOMAIN fs.files # DOMAIN world.disk.files

(* The name template of entry n has no field but {customer}; the last      *)
(* write to path p.                                                        *)
NameIgnoresModel(n) ==
    \A k \in 1..Len(world.config[n].name) :
        world.config[n].name[k].kind = "field" => world.config[n].name[k].text = "customer"

LastWrite(p) ==
    CHOOSE k \in Writes : log[k].path = p /\ \A l \in Writes : log[l].path = p => l <= k

(* C10: an entry whose name template has no field but {customer} does not  *)
(* fail on it; in a run that does not fail, all models of a customer of    *)
(* such an entry have one path, and the file at that path holds what was   *)
(* written to it last: the sql template rendered for the customer and the  *)
(* last model row, unless a later entry wrote to the same path.            *)
C10_LastWriteWins ==
    \A n \in 1..Len(world.config) :
        NameIgnoresModel(n) =>
            /\ ~(error.spec = n /\ error.site = "name template")
            /\ Succeeded =>
                  \A pr \in Pairs(n) :
                      /\ PathOf(n, pr[1], pr[2]) = PathOf(n, pr[1], 1)
                      /\ \A k \in TaskEvents({"write"}, n, pr[1], pr[2]) :
                            log[k].path = PathOf(n, pr[1], 1)
                      /\ fs.files[PathOf(n, pr[1], 1)]
                            = log[LastWrite(PathOf(n, pr[1], 1))].content
                      /\ log[LastWrite(PathOf(n, pr[1], 1))].spec = n =>
                            /\ log[LastWrite(PathOf(n, pr[1], 1))].model = Len(ModelRows(n))
                            /\ fs.files[PathOf(n, pr[1], 1)]
                                  = ContentOf(n, pr[1], Len(ModelRows(n)))

(* Two different models of one customer, written to one file that holds    *)
(* the second model's sql.                                                 *)
C10_Witness ==
    /\ Succeeded
    /\ \E n \in 1..Len(world.config) :
          /\ NameIgnoresModel(n)
          /\ Len(CustomerRows(n)) >= 1
          /\ Len(ModelRows(n)) = 2
          /\ ContentOf(n, 1, 1) # ContentOf(n, 1, 2)
          /\ fs.files[PathOf(n, 1, 1)] = ContentOf(n, 1, 2)

(* C11: there is no rollback.  In every state, and so after a run that     *)
(* failed in some task, each file that a completed task wrote is there     *)
(* with the content of the last write to its path, each file that was      *)
(* there before the run and that no task wrote is there unchanged, and no  *)
(* directory is gone; and the steps that handle the failure, the except    *)
(* and the finally clause of main, change nothing in the filesystem.       *)
C11_NoRollback ==
    /\ [](/\ \A k \in Writes :
               /\ log[k].path \in DOMAIN fs.files
               /\ fs.files[log[k].path] = log[LastWrite(log[k].path)].content
          /\ \A p \in DOMAIN world.disk.files :
               /\ p \in DOMAIN fs.files
               /\ (\A k \in Writes : log[k].path # p) => fs.files[p] = world.disk.files[p]
          /\ world.disk.dirs \subseteq fs.dirs
          /\ \A k \in 1..Len(log) : log[k].op = "mkdir" => log[k].path \in fs.dirs)
    /\ [][(pc \in {"except", "finally"}) => (fs' = fs)]_vars

(* A run that failed in a later task of an entry after it had written      *)
(* files, one of them over a file that was there before; all are there.    *)
C11_Witness ==
    /\ Failed
    /\ error.site \in TaskSites
    /\ error.cust > 1
    /\ Cardinality(Writes) >= 2
    /\ \E k \in Writes :
          /\ log[k].path \in DOMAIN world.disk.files
          /\ fs.files[log[k].path] = log[k].content
          /\ fs.files[log[k].path] # world.disk.files[log[k].path]

(* The log positions of the connection's events and of the queries.        *)
Connects == {k \in 1..Len(log) : log[k].op = "connect"}

Closes == {k \in 1..Len(log) : log[k].op = "close"}

Queries == {k \in 1..Len(log) : log[k].op = "query"}

(* C12: in a run of main the connection is acquired at most once and       *)
(* before every query, and closed at most once, only after it was          *)
(* acquired; when main is left, by return after success, by return after   *)
(* a caught error or by an error it did not catch, a connection that was   *)
(* acquired has been closed exactly once, after the last query; and when   *)
(* the connection setup fails there is no close, no query and no write.    *)
C12_ConnectionLifecycle ==
    /\ Cardinality(Connects) <= 1
    /\ Cardinality(Closes) <= 1
    /\ \A q \in Queries : \E c \in Connects : c < q
    /\ \A d \in Closes : \E c \in Connects : c < d
    /\ (conn = "open") <=> (Connects # {} /\ Closes = {})
    /\ Terminal =>
          /\ Connects # {} =>
                /\ Cardinality(Closes) = 1
                /\ conn = "closed"
                /\ \A d \in Closes : \A q \in Queries : q < d
          /\ Connects = {} => conn = "None"
    /\ error.site = "setup" =>
          /\ Connects = {}
          /\ Closes = {}
          /\ Queries = {}
          /\ Writes = {}
          /\ fs = world.disk

(* main left by an error that it did not catch, after queries: closed.     *)
C12_Witness ==
    /\ pc = "raised"
    /\ Cardinality(Queries) >= 2
    /\ Closes # {}
    /\ conn = "closed"

(* The directories from path p up to the filesystem root, p included, and  *)
(* start paths inside, at and outside the directories that may hold .git.  *)
Chain(p) == {SubSeq(p, 1, n) : n \in 0..Len(p)}

StartPaths == Chain(<<"repo", "scripts", "tools">>) \cup Chain(<<"home", "user">>)

Reads == {k \in 1..Len(log) : log[k].op = "read"}

(* C13: for every start path find_project_root ends with a result: the     *)
(* longest path among the start directory and its ancestors that holds     *)
(* .git, and None exactly when none of them holds it.  load_yaml_config    *)
(* raises FileNotFoundError, and has read no file, when no root is found   *)
(* from the script directory or models/dynamic_models.yml is not under the *)
(* root found; otherwise it reads that file.                               *)
C13_ProjectRootAndConfigLookup ==
    /\ \A start \in StartPaths :
          LET root == find_project_root(start)
              hits == Chain(start) \cap world.git
          IN  /\ root.found <=> hits # {}
              /\ root.found =>
                    /\ root.path \in hits
                    /\ \A h \in hits : Len(h) <= Len(root.path)
    /\ (Connects # {} /\ pc # "load") =>
          LET root == find_project_root(ScriptDir)
          IN  IF ~root.found
              THEN /\ error.cls = "FileNotFoundError"
                   /\ error.site = "project root"
                   /\ Reads = {}
              ELSE IF root.path \notin world.yamlAt
              THEN /\ error.cls = "FileNotFoundError"
                   /\ error.site = "yaml file"
                   /\ Reads = {}
              ELSE /\ Cardinality(Reads) = 1
                   /\ \A k \in Reads :
                         log[k].path = Join(root.path, <<"models", "dynamic_models.yml">>)
                   /\ error.site \notin {"project root", "yaml file"}

(* .git in the script directory and in its parent, the configuration file  *)
(* under the parent only: the nearer root is taken, and the file is not    *)
(* found there.                                                            *)
C13_Witness ==
    /\ Terminal
    /\ {RepoRoot, ScriptDir} \subseteq world.git
    /\ world.yamlAt = {RepoRoot}
    /\ find_project_root(ScriptDir).path = ScriptDir
    /\ error.site = "yaml file"
    /\ Reads = {}

-----------------------------------------------------------------------------
(* C14                                                                     *)

(* The position of the first "_" of str, or Len(str) + 1 without one.      *)
FirstUnderscore(str) ==
    IF \E n \in 1..Len(str) : str[n] = "_"
    THEN CHOOSE n \in 1..Len(str) : str[n] = "_" /\ \A m \in 1..(n - 1) : str[m] # "_"
    ELSE Len(str) + 1

TenantOf(h) ==
    LET cn == h.payload.connector_name.value
    IN  SubSeq(cn, 1, FirstUnderscore(cn) - 1)

IsFivetran(t) ==
    /\ Len(t) = Len(s_fivetran)
    /\ \A n \in 1..Len(t) : t[n] \in {s_fivetran[n], s_FIVETRAN[n]}

CdmDirExists(h) ==
    /\ h.tree.isdir
    /\ \E d \in h.tree.dirs : d[Len(d)] = s_cdm_ \o TenantOf(h)

PayloadUsable(h) ==
    /\ h.payload.kind = "object"
    /\ h.payload.connector_name.present
    /\ h.payload.connector_name.value # <<>>

MapsToDatabase(h) ==
    /\ h.payload.destination_group_id # "None"
    /\ h.map.kind = "object"
    /\ h.payload.destination_group_id \in DOMAIN h.map.map
    /\ h.map.map[h.payload.destination_group_id] # ""

AllGuards(h) ==
    /\ PayloadUsable(h)
    /\ h.payload.event = "sync_end"
    /\ h.payload.status = "SUCCESSFUL"
    /\ TenantOf(h) # <<>>
    /\ ~IsFivetran(TenantOf(h))
    /\ ~CdmDirExists(h)
    /\ MapsToDatabase(h)
    /\ h.GH_TOKEN # ""
    /\ h.GITHUB_REPOSITORY # ""

SomeFilterApplies(h) ==
    /\ PayloadUsable(h)
    /\ \/ h.payload.event # "sync_end"
       \/ h.payload.status # "SUCCESSFUL"
       \/ IsFivetran(TenantOf(h))
       \/ CdmDirExists(h)

FilterStops ==
    {"not sync_end", "not SUCCESSFUL", "Ignoring connector with tenantId 'fivetran'",
     "Tenant already exists"}

InputStops ==
    {"PAYLOAD env var not set", "Invalid PAYLOAD JSON", "AttributeError",
     "connector_name missing from payload",
     "Could not extract tenantId from connector_name", "Project root not found",
     "destination_group_id missing from payload", "DEST_GROUP_DB_MAP env var not set",
     "Invalid DEST_GROUP_DB_MAP JSON",
     "destination_group_id not found in DEST_GROUP_DB_MAP", "GH_TOKEN env var not set",
     "GITHUB_REPOSITORY env var not set"}

Exited == hpc = "exited"

(* C14: a run of the webhook handler sends the workflow-dispatch request   *)
(* at most once, and only when every guard holds: the payload parses and   *)
(* has a connector_name, the event is sync_end, data.status is SUCCESSFUL, *)
(* the tenant id (connector_name up to its first underscore) is not        *)
(* "fivetran" in any letter case, no directory cdm_<tenant> lies under     *)
(* models/customers, destination_group_id maps to a database in            *)
(* DEST_GROUP_DB_MAP, and GH_TOKEN and GITHUB_REPOSITORY are set; the      *)
(* request then carries that database. A run stopped by the event, status, *)
(* fivetran or tenant-exists filter exits with status 0, a run stopped by  *)
(* a missing or invalid input exits with status 1, and neither has sent a  *)
(* request.                                                                *)
C14_DispatchOnlyWhenGuardsHold ==
    /\ Len(posts) <= 1
    /\ posts # <<>> =>
          /\ AllGuards(hook)
          /\ tenant_id = TenantOf(hook)
          /\ posts[1].database = hook.map.map[hook.payload.destination_group_id]
          /\ posts[1].ref = "master"
    /\ Exited /\ message \in FilterStops =>
          /\ exit_status = 0
          /\ posts = <<>>
          /\ SomeFilterApplies(hook)
    /\ Exited /\ message \in InputStops =>
          /\ exit_status = 1
          /\ posts = <<>>
          /\ ~AllGuards(hook) \/ ~FindUp(hook.git, HookDir).found
    /\ Exited /\ posts = <<>> => message \in FilterStops \cup InputStops
    /\ Exited /\ exit_status = 0 /\ posts = <<>> => message \in FilterStops

(* The request has gone out once, for a connector name with two            *)
(* underscores, while a directory named after the whole connector name and *)
(* others lie under models/customers.                                      *)
C14_Witness ==
    /\ Exited
    /\ Len(posts) = 1
    /\ exit_status = 0
    /\ hook.payload.connector_name.value = s_beta_x_y
    /\ hook.tree.dirs # {}

====
